---- MODULE Spec2Model ----
(***************************************************************************)
(* State-machine model of the nucleus BED, FASTQ and SAM readers           *)
(* (nucleus/io/bed_reader.cc, nucleus/io/fastq_reader.cc,                   *)
(* nucleus/io/sam_reader.h).                                                *)
(*                                                                         *)
(* One reader object is modelled at a time; `kind` says which class it is. *)
(* A file is the sequence of lines its line reader delivers (hts_getline   *)
(* for BED, BufferedInputStream::ReadLine for FASTQ); a line is a sequence *)
(* of one-character strings, so splitting, prefix tests and substrings are *)
(* computed the way the code computes them.  The medium is readable: the   *)
(* only I/O failure modelled is the one of hts_close.                       *)
(***************************************************************************)
EXTENDS Integers, Sequences, FiniteSets, TLC

VARIABLES
    kind,      \* "bed" | "fastq" | "sam": the reader class under test
    exists,    \* whether the path can be opened
    file,      \* the lines of the file at the path
    phase,     \* "new" (FromFile not yet called) | "open" (a reader object exists) | "failed" | "destroyed"
    options,   \* BedReaderOptions.num_fields given to FromFile (options_ of the reader)
    header,    \* BedHeader.num_fields (header_)
    fp,        \* BedReader::fp_ / FastqReader::src_ : "open" | "null"
    stream,    \* FastqReader::buffered_inputstream_ : "set" | "null"
    pos,       \* number of lines the reader's single cursor has consumed
    iters,     \* number of iterables handed out by Iterate()
    res,       \* outcome of the latest call
    out,       \* the caller's record passed to Next()
    nclose,    \* how many times the underlying handle has been closed
    aborted,   \* a CHECK failed / the process died
    firstClose, \* "none", or the status the first Close() returned
    errIts,    \* iterables whose Next() has reported a malformed record
    bai,       \* SAM: whether the index file reads_path + ".bai" can be loaded
    idx,       \* SamReader::idx_ : the loaded index, or "null"
    sit        \* SAM: the iterable the caller currently holds

vars == <<kind, exists, file, phase, options, header, fp, stream, pos, iters,
          res, out, nclose, aborted, firstClose, errIts, bai, idx, sit>>

samVars == <<bai, idx, sit>>

---------------------------------------------------------------------------
(* Bounds *)

\* longest BED file, in lines
MaxLines == 2
\* most complete FASTQ records in a file (a truncated tail may follow)
MaxRecords == 2
\* most iterables handed out by one reader
MaxIter == 2
\* most reads in a SAM/BAM file
MaxReads == 2
\* length of every reference sequence of the SAM header
RefLen == 4
\* width of the finest bins of the index
BinWidth == 2

---------------------------------------------------------------------------
(* Characters, lines and tokens *)

Tab == "\t"

Digits == {"0", "1", "2", "3", "4", "5", "6", "7", "8", "9"}

DigitVal(c) ==
    CASE c = "0" -> 0 [] c = "1" -> 1 [] c = "2" -> 2 [] c = "3" -> 3
      [] c = "4" -> 4 [] c = "5" -> 5 [] c = "6" -> 6 [] c = "7" -> 7
      [] c = "8" -> 8 [] c = "9" -> 9

\* mutant of Min: std::max where the code has std::min
MinReturnsMax(a, b) == IF a < b THEN b ELSE a

Min(a, b) == IF a < b THEN a ELSE b

\* the text s[from..] (std::string::substr(from - 1) in 0-based terms)
Suffix(s, from) == SubSeq(s, from, Len(s))

RECURSIVE SplitAcc(_, _, _)
\* scan `rest`, `cur` being the token under construction and `acc` the tokens done
SplitAcc(rest, cur, acc) ==
    IF rest = <<>> THEN Append(acc, cur)
    ELSE IF Head(rest) = Tab THEN SplitAcc(Tail(rest), <<>>, Append(acc, cur))
    ELSE SplitAcc(Tail(rest), Append(cur, Head(rest)), acc)

\* absl::StrSplit(line, '\t'): the empty line gives one empty token
StrSplit(line) == SplitAcc(line, <<>>, <<>>)

RECURSIVE Join(_)
\* a line written from its tokens (how the test files are built)
Join(tokens) ==
    IF Len(tokens) = 1 THEN tokens[1]
    ELSE tokens[1] \o <<Tab>> \o Join(Tail(tokens))

\* absl::StartsWith(line, prefix) for a one-character prefix
StartsWith(line, c) == Len(line) > 0 /\ line[1] = c

RECURSIVE DecimalValue(_, _)
DecimalValue(tok, acc) ==
    IF tok = <<>> THEN acc
    ELSE DecimalValue(Tail(tok), acc * 10 + DigitVal(Head(tok)))

IsNumber(tok) == Len(tok) > 0 /\ \A i \in 1..Len(tok) : tok[i] \in Digits

\* tf::strings::safe_strto64 / safe_strto32 writing through `value`: the parsed
\* number on success, and on failure `value` keeps what it held before
SafeStrto(tok, value) == IF IsNumber(tok) THEN DecimalValue(tok, 0) ELSE value

RECURSIVE DigitPrefix(_)
DigitPrefix(tok) ==
    IF tok = <<>> \/ Head(tok) \notin Digits THEN <<>>
    ELSE <<Head(tok)>> \o DigitPrefix(Tail(tok))

\* tf::strings::safe_strtod: *value = strtod(str), which is the value of the
\* longest numeric prefix and 0 when there is none
SafeStrtod(tok) == DecimalValue(DigitPrefix(tok), 0)

---------------------------------------------------------------------------
(* BED: pure parts of bed_reader.cc *)

ValidNumBedFields(fields) == fields \in {3, 4, 5, 6, 8, 9, 12}

RECURSIVE NextNonCommentLineEofIsError(_, _)
\* mutant of NextNonCommentLine: ret < 0 tested before ret == -1, so the end of
\* the file is reported as DataLoss
NextNonCommentLineEofIsError(f, p) ==
    IF p >= Len(f) THEN [status |-> "DataLoss", line |-> <<>>, pos |-> p]
    ELSE IF StartsWith(f[p + 1], "#") THEN NextNonCommentLineEofIsError(f, p + 1)
    ELSE [status |-> "OK", line |-> f[p + 1], pos |-> p + 1]

\* mutant of NextNonCommentLine: `if` where the code loops, so only one comment
\* line is skipped
NextNonCommentLineSkipsOne(f, p) ==
    IF p >= Len(f) THEN [status |-> "OutOfRange", line |-> <<>>, pos |-> p]
    ELSE IF ~StartsWith(f[p + 1], "#")
    THEN [status |-> "OK", line |-> f[p + 1], pos |-> p + 1]
    ELSE IF p + 1 >= Len(f)
    THEN [status |-> "OutOfRange", line |-> <<>>, pos |-> p + 1]
    ELSE [status |-> "OK", line |-> f[p + 2], pos |-> p + 2]

RECURSIVE NextNonCommentLine(_, _)
\* read lines of f from cursor p until one does not start with '#';
\* hts_getline returning -1 (end of file) gives OutOfRange
NextNonCommentLine(f, p) ==
    IF p >= Len(f) THEN [status |-> "OutOfRange", line |-> <<>>, pos |-> p]
    ELSE IF StartsWith(f[p + 1], "#") THEN NextNonCommentLine(f, p + 1)
    ELSE [status |-> "OK", line |-> f[p + 1], pos |-> p + 1]

\* BedRecord after Clear(): no field set
EmptyRecord == <<>>

\* mutant of StrandOf: the final else sets NO_STRAND instead of failing
StrandOfLenient(tok) ==
    IF tok = <<"+">> THEN "FORWARD_STRAND"
    ELSE IF tok = <<"-">> THEN "REVERSE_STRAND"
    ELSE "NO_STRAND"

\* the strand enum of a strand token, "" when the token is none of + - .
StrandOf(tok) ==
    IF tok = <<"+">> THEN "FORWARD_STRAND"
    ELSE IF tok = <<"-">> THEN "REVERSE_STRAND"
    ELSE IF tok = <<".">> THEN "NO_STRAND"
    ELSE ""

\* g: what the uninitialised locals int64Value and int32Value hold on entry
ConvertToPb(line, desiredNumFields, g) ==
    LET tokens == StrSplit(line)
        numTokens == Len(tokens)
        numFields == IF desiredNumFields = 0 THEN numTokens
                     ELSE Min(numTokens, desiredNumFields)
        Tok(i) == IF i <= numTokens THEN tokens[i] ELSE <<>>
        v1 == SafeStrto(Tok(2), g.i64)
        v2 == SafeStrto(Tok(3), v1)
        r3 == [reference_name |-> Tok(1), start |-> v1, end |-> v2]
        r4 == IF numFields > 3 THEN r3 @@ [name |-> Tok(4)] ELSE r3
        r5 == IF numFields > 4 THEN r4 @@ [score |-> SafeStrtod(Tok(5))] ELSE r4
        r6 == IF numFields > 5 THEN r5 @@ [strand |-> StrandOf(Tok(6))] ELSE r5
        v7 == SafeStrto(Tok(7), v2)
        v8 == SafeStrto(Tok(8), v7)
        r8 == IF numFields > 7
              THEN r6 @@ [thick_start |-> v7, thick_end |-> v8] ELSE r6
        r9 == IF numFields > 8 THEN r8 @@ [item_rgb |-> Tok(9)] ELSE r8
        r12 == IF numFields >= 12
               THEN r9 @@ [block_count |-> SafeStrto(Tok(10), g.i32),
                           block_sizes |-> Tok(11), block_starts |-> Tok(12)]
               ELSE r9
    IN  IF ~ValidNumBedFields(numTokens)
        THEN [status |-> "Unknown", numTokens |-> numTokens,
              record |-> EmptyRecord]
        ELSE IF numFields > 5 /\ StrandOf(Tok(6)) = ""
        THEN [status |-> "Unknown", numTokens |-> numTokens, record |-> r5]
        ELSE [status |-> "OK", numTokens |-> numTokens, record |-> r12]

\* mutant of Validate: accepts every width
ValidateAcceptsAll(headerNumFields, numTokens) == "OK"

\* mutant of Validate: reports a width mismatch as DataLoss
ValidateDataLoss(headerNumFields, numTokens) ==
    IF headerNumFields # numTokens THEN "DataLoss" ELSE "OK"

\* BedReader::Validate against header_.num_fields()
Validate(headerNumFields, numTokens) ==
    IF headerNumFields # numTokens THEN "Unknown" ELSE "OK"

\* GetNumFields on a fresh handle of the path
GetNumFields(canOpen, f) ==
    IF ~canOpen THEN [status |-> "NotFound", numFields |-> 0]
    ELSE LET r == NextNonCommentLine(f, 0)
         IN  IF r.status = "OK"
             THEN [status |-> "OK", numFields |-> Len(StrSplit(r.line))]
             ELSE [status |-> r.status, numFields |-> 0]

\* mutant of BedOptionsInvalid: >= where the code has >
BedOptionsInvalidOffByOne(numFieldsOpt, numFieldsInBed) ==
    numFieldsOpt # 0
    /\ (numFieldsOpt >= numFieldsInBed \/ ~ValidNumBedFields(numFieldsOpt))

\* the option check of BedReader::FromFile
BedOptionsInvalid(numFieldsOpt, numFieldsInBed) ==
    numFieldsOpt # 0
    /\ (numFieldsOpt > numFieldsInBed \/ ~ValidNumBedFields(numFieldsOpt))

---------------------------------------------------------------------------
(* FASTQ: pure parts of fastq_reader.cc *)

HEADER_SYMBOL == "@"

RECURSIVE FindSpaceLast(_, _)
\* mutant of FindSpace: header.rfind(" "), the last space from index i on
FindSpaceLast(s, i) ==
    IF i > Len(s) THEN 0
    ELSE LET later == FindSpaceLast(s, i + 1)
         IN  IF later # 0 THEN later
             ELSE IF s[i] = " " THEN i ELSE 0

RECURSIVE FindSpace(_, _)
\* header.find(" ") from 1-based index i; 0 stands for string::npos
FindSpace(s, i) ==
    IF i > Len(s) THEN 0
    ELSE IF s[i] = " " THEN i
    ELSE FindSpace(s, i + 1)

\* the record ConvertToPb builds once the four lines are accepted
FastqRecordOf(hdr, sequence, quality) ==
    LET spaceix == FindSpace(hdr, 1)
        idAndDesc ==
            IF spaceix = 0 THEN [id |-> Suffix(hdr, 2)]
            ELSE [id |-> SubSeq(hdr, 2, spaceix - 1),
                  description |-> Suffix(hdr, spaceix + 1)]
    IN  idAndDesc @@ [sequence |-> sequence, quality |-> quality]

\* mutant of FastqConvertToPb: sequence and quality lengths are not compared
FastqConvertToPbNoLengthCheck(hdr, sequence, pad, quality) ==
    IF Len(hdr) = 0 \/ hdr[1] # HEADER_SYMBOL
    THEN [status |-> "DataLoss", record |-> EmptyRecord]
    ELSE [status |-> "OK", record |-> FastqRecordOf(hdr, sequence, quality)]

\* mutant of FastqConvertToPb: the header's first character is not tested
FastqConvertToPbNoHeaderCheck(hdr, sequence, pad, quality) ==
    IF Len(sequence) # Len(quality)
    THEN [status |-> "DataLoss", record |-> EmptyRecord]
    ELSE [status |-> "OK", record |-> FastqRecordOf(hdr, sequence, quality)]

\* mutant of FastqConvertToPb: the third line must start with '+'
FastqConvertToPbStrictPad(hdr, sequence, pad, quality) ==
    IF Len(hdr) = 0 \/ hdr[1] # HEADER_SYMBOL \/ Len(sequence) # Len(quality)
       \/ Len(pad) = 0 \/ pad[1] # "+"
    THEN [status |-> "DataLoss", record |-> EmptyRecord]
    ELSE [status |-> "OK", record |-> FastqRecordOf(hdr, sequence, quality)]

FastqConvertToPb(hdr, sequence, pad, quality) ==
    IF Len(hdr) = 0 \/ hdr[1] # HEADER_SYMBOL \/ Len(sequence) # Len(quality)
    THEN [status |-> "DataLoss", record |-> EmptyRecord]
    ELSE [status |-> "OK", record |-> FastqRecordOf(hdr, sequence, quality)]

\* BufferedInputStream::ReadLine at cursor p
ReadLine(f, p) ==
    IF p >= Len(f) THEN [status |-> "OutOfRange", line |-> <<>>, pos |-> p]
    ELSE [status |-> "OK", line |-> f[p + 1], pos |-> p + 1]

\* FastqReader::Next: four ReadLine calls, returning at the first that fails
FastqReaderNext(f, p) ==
    LET h == ReadLine(f, p)
        s == ReadLine(f, h.pos)
        d == ReadLine(f, s.pos)
        q == ReadLine(f, d.pos)
        st == IF h.status # "OK" THEN h.status
              ELSE IF s.status # "OK" THEN s.status
              ELSE IF d.status # "OK" THEN d.status
              ELSE q.status
    IN  [status |-> st, header |-> h.line, sequence |-> s.line,
         pad |-> d.line, quality |-> q.line, pos |-> q.pos]

---------------------------------------------------------------------------
(* Inputs *)

Chr == <<"c">>

BedComment == <<"#", "c">>
Bed3 == Join(<<Chr, <<"1">>, <<"2">>>>)
Bed3BadStart == Join(<<Chr, <<"x">>, <<"2">>>>)
Bed4 == Join(<<Chr, <<"3">>, <<"4">>, <<"n">>>>)
Bed6Plus == Join(<<Chr, <<"1">>, <<"2">>, <<"n">>, <<"0">>, <<"+">>>>)
Bed6BadStrand == Join(<<Chr, <<"3">>, <<"4">>, <<"m">>, <<"0">>, <<"x">>>>)
Bed6Minus == Join(<<Chr, <<"5">>, <<"6">>, <<"n">>, <<"1">>, <<"-">>>>)
Bed7 == Join(<<Chr, <<"1">>, <<"2">>, <<"n">>, <<"0">>, <<"-">>, <<"5">>>>)
Bed12 ==
    Join(<<Chr, <<"1">>, <<"2">>, <<"n">>, <<"0">>, <<".">>, <<"x">>, <<"4">>,
           <<"r">>, <<"z">>, <<"s">>, <<"t">>>>)

BedLinePool ==
    {BedComment, Bed3, Bed3BadStart, Bed4, Bed6Plus, Bed6Minus, Bed6BadStrand,
     Bed7, Bed12}

\* the values of options.num_fields tried at open
NumFieldsChoices == {0, 3, 4, 5, 6, 7, 8, 9, 12}

\* what an uninitialised integer local may hold
Garbage == {0, 7}

FqGood ==
    << <<"@", "a", " ", "b", " ", "c">>, <<"A", "C">>, <<"+">>, <<"!", "!">> >>
FqGoodNoDesc == << <<"@", "c">>, <<"G">>, <<"+">>, <<"!">> >>
FqBadHeader == << <<"c">>, <<"G">>, <<"+">>, <<"!">> >>
FqEmptyHeader == << <<>>, <<"G">>, <<"+">>, <<"!">> >>
FqLenMismatch == << <<"@", "c">>, <<"A", "C">>, <<"+">>, <<"!">> >>
FqBadPad == << <<"@", "c">>, <<"G">>, <<"x">>, <<"!">> >>
FqEmptySeq == << <<"@", "c">>, <<>>, <<>>, <<>> >>

FastqRecordPool ==
    {FqGood, FqGoodNoDesc, FqBadHeader, FqEmptyHeader, FqLenMismatch, FqBadPad,
     FqEmptySeq}

SeqsUpTo(S, n) == UNION {[1..k -> S] : k \in 0..n}

RECURSIVE Flatten(_)
Flatten(ss) == IF ss = <<>> THEN <<>> ELSE Head(ss) \o Flatten(Tail(ss))

BedFiles == SeqsUpTo(BedLinePool, MaxLines)

\* whole records followed by the first 0..3 lines of one more record
FastqFiles ==
    {Flatten(rs) \o SubSeq(FqGoodNoDesc, 1, k) :
        rs \in SeqsUpTo(FastqRecordPool, MaxRecords), k \in 0..3}

---------------------------------------------------------------------------
(* State *)

\* no SAM iterable held
NoIterable == [kind |-> "none"]

NoResult ==
    [op |-> "None", it |-> 0, code |-> "OK", ret |-> "none", pre |-> 0,
     open |-> FALSE, dead |-> FALSE]

Result(op, it, code, ret) ==
    [op |-> op, it |-> it, code |-> code, ret |-> ret, pre |-> pos,
     open |-> (fp # "null"), dead |-> (it \in errIts)]

Init ==
    /\ kind \in {"bed", "fastq"}
    /\ exists \in BOOLEAN
    /\ file \in (IF ~exists THEN {<<>>}
                 ELSE IF kind = "bed" THEN BedFiles ELSE FastqFiles)
    /\ phase = "new"
    /\ options = 0
    /\ header = 0
    /\ fp = "null"
    /\ stream = "null"
    /\ pos = 0
    /\ iters = 0
    /\ res = NoResult
    /\ out = EmptyRecord
    /\ nclose = 0
    /\ aborted = FALSE
    /\ firstClose = "none"
    /\ errIts = {}
    /\ bai = FALSE
    /\ idx = "null"
    /\ sit = NoIterable

---------------------------------------------------------------------------
(* Reader base *)

\* Iterable::CheckIsAlive: refuses once the reader has been closed
CheckIsAlive == IF fp = "null" THEN "FailedPrecondition" ELSE "OK"

\* what one Next() call does: its status, its bool (when the status is OK), the
\* cursor and the caller's record afterwards, and whether the process died
Outcome(code, ret, p, o, ab) ==
    [code |-> code, ret |-> ret, pos |-> p, out |-> o, abort |-> ab]

GarbageLocals == [i64 : Garbage, i32 : Garbage]

---------------------------------------------------------------------------
(* BedReader *)

\* BedReader::FromFile(bed_path, options) with options.num_fields = nf
BedFromFile(nf) ==
    /\ kind = "bed" /\ phase = "new" /\ ~aborted
    /\ options' = nf
    /\ LET n == GetNumFields(exists, file)
       IN  IF n.status # "OK"
           THEN /\ phase' = "failed"
                /\ res' = Result("FromFile", 0, n.status, "none")
                /\ UNCHANGED <<header, fp>>
           ELSE IF BedOptionsInvalid(nf, n.numFields)
           THEN /\ phase' = "failed"
                /\ res' = Result("FromFile", 0, "InvalidArgument", "none")
                /\ UNCHANGED <<header, fp>>
           ELSE /\ phase' = "open"
                /\ header' = n.numFields
                /\ fp' = "open"
                /\ res' = Result("FromFile", 0, "OK", "none")
    /\ UNCHANGED samVars
    /\ UNCHANGED <<kind, exists, file, stream, pos, iters, out, nclose,
                   aborted, firstClose, errIts>>

\* Close() returning `code`, leaving fp_ = f after n calls of hts_close
BedCloseReturns(code, f, n) ==
    /\ res' = Result("Close", 0, code, "none")
    /\ fp' = f
    /\ nclose' = n
    /\ firstClose' = IF firstClose = "none" THEN code ELSE firstClose

\* mutant of BedClose: a failing hts_close returns before fp_ is reset
BedCloseKeepsHandleOnError ==
    /\ kind = "bed" /\ phase = "open" /\ ~aborted
    /\ IF fp = "null"
       THEN BedCloseReturns("FailedPrecondition", fp, nclose)
       ELSE \E retval \in {-1, 0} :
            IF retval < 0
            THEN BedCloseReturns("Internal", fp, nclose + 1)
            ELSE BedCloseReturns("OK", "null", nclose + 1)
    /\ UNCHANGED samVars
    /\ UNCHANGED <<kind, exists, file, phase, options, header, stream, pos,
                   iters, out, aborted, errIts>>

\* BedReader::Close(); hts_close fails or not
BedClose ==
    /\ kind = "bed" /\ phase = "open" /\ ~aborted
    /\ IF fp = "null"
       THEN BedCloseReturns("FailedPrecondition", fp, nclose)
       ELSE \E retval \in {-1, 0} :
            BedCloseReturns(IF retval < 0 THEN "Internal" ELSE "OK",
                            "null", nclose + 1)
    /\ UNCHANGED samVars
    /\ UNCHANGED <<kind, exists, file, phase, options, header, stream, pos,
                   iters, out, aborted, errIts>>

\* BedReader::~BedReader(): if (fp_) TF_CHECK_OK(Close()); a Close() that is
\* not OK makes TF_CHECK_OK end the process
BedDestroy ==
    /\ kind = "bed" /\ phase = "open" /\ ~aborted
    /\ phase' = "destroyed"
    /\ res' = Result("Destroy", 0, "OK", "none")
    /\ IF fp = "null"
       THEN UNCHANGED <<fp, nclose, aborted, firstClose>>
       ELSE \E retval \in {-1, 0} :
            /\ fp' = "null"
            /\ nclose' = nclose + 1
            /\ aborted' = (retval < 0)
            /\ firstClose' = IF firstClose # "none" THEN firstClose
                             ELSE IF retval < 0 THEN "Internal" ELSE "OK"
    /\ UNCHANGED samVars
    /\ UNCHANGED <<kind, exists, file, options, header, stream, pos, iters,
                   out, errIts>>

\* mutant of BedIterate: no test of fp_
BedIterateUnchecked ==
    /\ kind = "bed" /\ phase = "open" /\ ~aborted
    /\ iters < MaxIter
    /\ iters' = iters + 1
    /\ res' = Result("Iterate", iters + 1, "OK", "none")
    /\ UNCHANGED samVars
    /\ UNCHANGED <<kind, exists, file, phase, options, header, fp, stream,
                   pos, out, nclose, aborted, firstClose, errIts>>

\* mutant of BedIterate: a new iterable starts again at the top of the file
BedIterateRewinds ==
    /\ kind = "bed" /\ phase = "open" /\ ~aborted
    /\ IF fp = "null"
       THEN /\ res' = Result("Iterate", 0, "FailedPrecondition", "none")
            /\ UNCHANGED <<iters, pos>>
       ELSE /\ iters < MaxIter
            /\ iters' = iters + 1
            /\ pos' = 0
            /\ res' = Result("Iterate", iters + 1, "OK", "none")
    /\ UNCHANGED samVars
    /\ UNCHANGED <<kind, exists, file, phase, options, header, fp, stream,
                   out, nclose, aborted, firstClose, errIts>>

\* BedReader::Iterate()
BedIterate ==
    /\ kind = "bed" /\ phase = "open" /\ ~aborted
    /\ IF fp = "null"
       THEN /\ res' = Result("Iterate", 0, "FailedPrecondition", "none")
            /\ UNCHANGED iters
       ELSE /\ iters < MaxIter
            /\ iters' = iters + 1
            /\ res' = Result("Iterate", iters + 1, "OK", "none")
    /\ UNCHANGED samVars
    /\ UNCHANGED <<kind, exists, file, phase, options, header, fp, stream,
                   pos, out, nclose, aborted, firstClose, errIts>>

\* mutant of BedNextRead: the line is parsed into a temporary and `out` is
\* written only on success
BedNextReadKeepsOutOnError(g) ==
    IF fp = "null"
    THEN Outcome("OK", "none", pos, out, TRUE)
    ELSE LET r == NextNonCommentLine(file, pos)
             c == ConvertToPb(r.line, options, g)
             v == Validate(header, c.numTokens)
         IN  IF r.status = "OutOfRange"
             THEN Outcome("OK", "false", r.pos, out, FALSE)
             ELSE IF c.status # "OK"
             THEN Outcome(c.status, "none", r.pos, out, FALSE)
             ELSE IF v # "OK"
             THEN Outcome(v, "none", r.pos, out, FALSE)
             ELSE Outcome("OK", "true", r.pos, c.record, FALSE)

\* BedFullFileIterable::Next(out) after its CheckIsAlive() test, g being the
\* uninitialised locals of ConvertToPb
BedNextRead(g) ==
    IF fp = "null"
    THEN \* CHECK(fp != nullptr) in NextNonCommentLine
         Outcome("OK", "none", pos, out, TRUE)
    ELSE LET r == NextNonCommentLine(file, pos)
             c == ConvertToPb(r.line, options, g)
             v == Validate(header, c.numTokens)
         IN  IF r.status = "OutOfRange"
             THEN Outcome("OK", "false", r.pos, out, FALSE)
             ELSE IF c.status # "OK"
             THEN Outcome(c.status, "none", r.pos, c.record, FALSE)
             ELSE IF v # "OK"
             THEN Outcome(v, "none", r.pos, c.record, FALSE)
             ELSE Outcome("OK", "true", r.pos, c.record, FALSE)

\* mutant of BedNextOutcome: no CheckIsAlive() test
BedNextOutcomeNoAliveCheck(g) == BedNextRead(g)

\* BedFullFileIterable::Next(out)
BedNextOutcome(g) ==
    IF CheckIsAlive # "OK"
    THEN Outcome("FailedPrecondition", "none", pos, out, FALSE)
    ELSE BedNextRead(g)

BedNextOutcomes == {BedNextOutcome(g) : g \in GarbageLocals}

\* the effect of a Next() call of iterable i with outcome o
ApplyNext(i, o) ==
    /\ res' = Result("Next", i, o.code, o.ret)
    /\ pos' = o.pos
    /\ out' = o.out
    /\ aborted' = o.abort
    /\ errIts' = IF o.code \in {"OK", "FailedPrecondition"} THEN errIts
                 ELSE errIts \cup {i}
    /\ UNCHANGED samVars
    /\ UNCHANGED <<kind, exists, file, phase, options, header, fp, stream,
                   iters, nclose, firstClose>>

BedNext(i) ==
    /\ kind = "bed" /\ phase = "open" /\ ~aborted
    /\ i \in 1..iters
    /\ \E o \in BedNextOutcomes : ApplyNext(i, o)

---------------------------------------------------------------------------
(* FastqReader *)

\* FastqReader::FromFile and the constructor
FastqFromFile ==
    /\ kind = "fastq" /\ phase = "new" /\ ~aborted
    /\ IF ~exists
       THEN /\ phase' = "failed"
            /\ res' = Result("FromFile", 0, "NotFound", "none")
            /\ UNCHANGED <<fp, stream>>
       ELSE /\ phase' = "open"
            /\ fp' = "open"
            /\ stream' = "set"
            /\ res' = Result("FromFile", 0, "OK", "none")
    /\ UNCHANGED samVars
    /\ UNCHANGED <<kind, exists, file, options, header, pos, iters, out,
                   nclose, aborted, firstClose, errIts>>

\* FastqReader::Close()
FastqClose ==
    /\ kind = "fastq" /\ phase = "open" /\ ~aborted
    /\ stream' = "null"
    /\ fp' = "null"
    /\ nclose' = IF fp # "null" THEN nclose + 1 ELSE nclose
    /\ res' = Result("Close", 0, "OK", "none")
    /\ firstClose' = IF firstClose = "none" THEN "OK" ELSE firstClose
    /\ UNCHANGED samVars
    /\ UNCHANGED <<kind, exists, file, phase, options, header, pos, iters,
                   out, aborted, errIts>>

\* FastqReader::~FastqReader(): TF_CHECK_OK(Close()), and Close() is always OK
FastqDestroy ==
    /\ kind = "fastq" /\ phase = "open" /\ ~aborted
    /\ phase' = "destroyed"
    /\ res' = Result("Destroy", 0, "OK", "none")
    /\ stream' = "null"
    /\ fp' = "null"
    /\ nclose' = IF fp # "null" THEN nclose + 1 ELSE nclose
    /\ firstClose' = IF firstClose = "none" THEN "OK" ELSE firstClose
    /\ UNCHANGED samVars
    /\ UNCHANGED <<kind, exists, file, options, header, pos, iters, out,
                   aborted, errIts>>

\* FastqReader::Iterate()
FastqIterate ==
    /\ kind = "fastq" /\ phase = "open" /\ ~aborted
    /\ IF fp = "null"
       THEN /\ res' = Result("Iterate", 0, "FailedPrecondition", "none")
            /\ UNCHANGED iters
       ELSE /\ iters < MaxIter
            /\ iters' = iters + 1
            /\ res' = Result("Iterate", iters + 1, "OK", "none")
    /\ UNCHANGED samVars
    /\ UNCHANGED <<kind, exists, file, phase, options, header, fp, stream,
                   pos, out, nclose, aborted, firstClose, errIts>>

\* FastqFullFileIterable::Next(out): the set of its possible outcomes
FastqNextOutcomes ==
    IF CheckIsAlive # "OK"
    THEN {Outcome("FailedPrecondition", "none", pos, out, FALSE)}
    ELSE IF stream = "null"
    THEN \* buffered_inputstream_->ReadLine through a null pointer: undefined
         {Outcome("OK", "none", pos, out, TRUE),
          Outcome("OK", "true", pos, out, FALSE),
          Outcome("OK", "false", pos, out, FALSE)}
    ELSE LET r == FastqReaderNext(file, pos)
             c == FastqConvertToPb(r.header, r.sequence, r.pad, r.quality)
         IN  IF r.status = "OutOfRange"
             THEN {Outcome("OK", "false", r.pos, out, FALSE)}
             ELSE IF c.status # "OK"
             THEN {Outcome(c.status, "none", r.pos, c.record, FALSE)}
             ELSE {Outcome("OK", "true", r.pos, c.record, FALSE)}

FastqNext(i) ==
    /\ kind = "fastq" /\ phase = "open" /\ ~aborted
    /\ i \in 1..iters
    /\ \E o \in FastqNextOutcomes : ApplyNext(i, o)

---------------------------------------------------------------------------
(* SAM: reads, header dictionary, index and region query *)

\* the reference dictionary of the header, in header order
SamHeader ==
    <<[name |-> "chr1", length |-> RefLen], [name |-> "chr2", length |-> RefLen]>>

\* range.reference_name -> tid (0-based), -1 when the header does not have it
NameToTid(name) ==
    IF \E i \in 1..Len(SamHeader) : SamHeader[i].name = name
    THEN (CHOOSE i \in 1..Len(SamHeader) : SamHeader[i].name = name) - 1
    ELSE -1

\* an aligned read: reference, alignment interval [start, end), mapping quality
Read(ref, s, e, q) ==
    [reference_name |-> ref, start |-> s, end |-> e, mapping_quality |-> q]

SamReadPool ==
    {Read("chr1", 0, 2, 1), Read("chr1", 1, 3, 1), Read("chr1", 2, 4, 1),
     Read("chr2", 1, 3, 1), Read("chr1", 3, 4, 0)}

SamFiles == SeqsUpTo(SamReadPool, MaxReads)

IndexModes == {"NONE", "LOAD_IF_PRESENT", "REQUIRE"}

MinMapqChoices == {0, 1}

\* the ranges a caller asks for, valid or not
QueryRanges ==
    [reference_name : {"chr1", "chr2"}, start : 0..RefLen, end : 0..RefLen]
    \cup {[reference_name |-> "chrX", start |-> 0, end |-> 1],
          [reference_name |-> "chr1", start |-> -1, end |-> 1],
          [reference_name |-> "chr2", start |-> 0, end |-> RefLen + 1]}

\* SamReader::KeepRead with the min_mapping_quality requirement
KeepRead(read) == read.mapping_quality >= options.min_mapping_quality

\* mutant of HasIndex: true whatever idx_ is
HasIndexAlways == TRUE

\* SamReader::HasIndex
HasIndex == idx # "null"

\* mutant of Overlaps: closed intervals
OverlapsClosed(rs, re, qs, qe) == rs <= qe /\ re >= qs

\* half-open overlap of [rs, re) and [qs, qe)
Overlaps(rs, re, qs, qe) == rs < qe /\ re > qs

\* bins of the index of one reference: bin 0 spans the reference, bins 1.. are
\* the consecutive windows of BinWidth bases
NumLeafBins == (RefLen + BinWidth - 1) \div BinWidth
Bins == 0..NumLeafBins
BinBeg(b) == IF b = 0 THEN 0 ELSE (b - 1) * BinWidth
BinEnd(b) == IF b = 0 THEN RefLen ELSE b * BinWidth

\* the smallest bin that holds the whole of [beg, end)
RegToBin(beg, end) ==
    IF beg \div BinWidth = (end - 1) \div BinWidth
    THEN 1 + beg \div BinWidth ELSE 0

\* the bins a query [qs, qe) has to visit
RegToBins(qs, qe) == {b \in Bins : Overlaps(BinBeg(b), BinEnd(b), qs, qe)}

\* offsets (record numbers) of the reads of f filed under bin b of reference tid
BinMembers(f, tid, b) ==
    {i \in 1..Len(f) : /\ NameToTid(f[i].reference_name) = tid
                       /\ RegToBin(f[i].start, f[i].end) = b}

\* the chunk of the file the index keeps for a bin: first to last member
Chunk(f, tid, b) ==
    LET m == BinMembers(f, tid, b)
    IN  IF m = {} THEN {}
        ELSE {i \in 1..Len(f) : /\ \E lo \in m : lo <= i
                                /\ \E hi \in m : i <= hi}

RECURSIVE SortedSeq(_)
SortedSeq(s) ==
    IF s = {} THEN <<>>
    ELSE LET m == CHOOSE x \in s : \A y \in s : x <= y
         IN  <<m>> \o SortedSeq(s \ {m})

\* the offsets a region query streams through, in file order
QueryOffsets(f, tid, qs, qe) ==
    SortedSeq(UNION {Chunk(f, tid, b) : b \in RegToBins(qs, qe)})

\* step 2 of the region query: 0 <= start <= end <= reference length
ValidRange(range) ==
    LET tid == NameToTid(range.reference_name)
    IN  /\ tid >= 0
        /\ 0 <= range.start /\ range.start <= range.end
        /\ range.end <= SamHeader[tid + 1].length

---------------------------------------------------------------------------
(* SamReader *)

\* a new iterable: a query iterable carries its own list of offsets to stream,
\* an iterable of Iterate() starts where the reader's cursor is
SamIterable(k, range, offs) ==
    [kind |-> k, range |-> range, offsets |-> offs,
     from |-> IF k = "query" THEN 0 ELSE pos, yielded |-> <<>>, done |-> FALSE]

NoRange == [reference_name |-> "", start |-> 0, end |-> 0]

\* the index FromFile hands to the constructor: loaded from reads_path + ".bai"
\* when options.index_mode asks for it and the file is there
LoadIndex(mode) == IF mode # "NONE" /\ bai THEN "loaded" ELSE "null"

\* SamReader::FromFile: opens the file, parses the header, loads the index and
\* constructs the reader; of the options the model keeps the read requirement
\* KeepRead consults
SamFromFile(mode, minq) ==
    /\ kind = "sam" /\ phase = "new" /\ ~aborted
    /\ options' = [min_mapping_quality |-> minq]
    /\ IF ~exists
       THEN /\ phase' = "failed"
            /\ res' = Result("FromFile", 0, "NotFound", "none")
            /\ UNCHANGED <<header, fp, idx>>
       ELSE /\ phase' = "open"
            /\ fp' = "open"
            /\ header' = SamHeader
            /\ idx' = LoadIndex(mode)
            /\ res' = Result("FromFile", 0, "OK", LoadIndex(mode))
    /\ UNCHANGED <<kind, exists, file, stream, pos, iters, out, nclose,
                   aborted, firstClose, errIts, bai, sit>>

\* SamReader::Iterate()
SamIterate ==
    /\ kind = "sam" /\ phase = "open" /\ ~aborted
    /\ sit.kind = "none"
    /\ IF fp = "null"
       THEN /\ res' = Result("Iterate", 0, "FailedPrecondition", "none")
            /\ sit' = sit
       ELSE /\ res' = Result("Iterate", 0, "OK", "iterable")
            /\ sit' = SamIterable("iterate", NoRange, <<>>)
    /\ UNCHANGED <<kind, exists, file, phase, options, header, fp, stream,
                   pos, iters, out, nclose, aborted, firstClose, errIts, bai,
                   idx>>

\* SamReader::Query(region)
SamQuery(region) ==
    /\ kind = "sam" /\ phase = "open" /\ ~aborted
    /\ sit.kind # "query"
    /\ IF fp = "null" \/ ~HasIndex
       THEN /\ res' = Result("Query", 0, "FailedPrecondition", "none")
            /\ sit' = sit
       ELSE IF ~ValidRange(region)
       THEN /\ res' = Result("Query", 0, "InvalidArgument", "none")
            /\ sit' = sit
       ELSE /\ res' = Result("Query", 0, "OK", "iterable")
            /\ sit' = SamIterable("query", region,
                           QueryOffsets(file, NameToTid(region.reference_name),
                                        region.start, region.end))
    /\ UNCHANGED <<kind, exists, file, phase, options, header, fp, stream,
                   pos, iters, out, nclose, aborted, firstClose, errIts, bai,
                   idx>>

\* whether iterable `it` surfaces the read: the reader's filter, and for a
\* query the overlap with the region on its reference
Emits(it, read) ==
    /\ KeepRead(read)
    /\ it.kind = "query" =>
          /\ read.reference_name = it.range.reference_name
          /\ Overlaps(read.start, read.end, it.range.start, it.range.end)

RECURSIVE SamScan(_, _)
\* stream the records at offsets `offs` up to the first one `it` surfaces
SamScan(it, offs) ==
    IF offs = <<>> THEN [found |-> FALSE, offset |-> 0, rest |-> <<>>]
    ELSE IF Emits(it, file[Head(offs)])
    THEN [found |-> TRUE, offset |-> Head(offs), rest |-> Tail(offs)]
    ELSE SamScan(it, Tail(offs))

\* SamIterable::Next of the iterable the caller holds
SamNext ==
    /\ kind = "sam" /\ phase = "open" /\ ~aborted
    /\ sit.kind # "none"
    /\ IF CheckIsAlive # "OK"
       THEN /\ res' = Result("Next", 0, CheckIsAlive, "none")
            /\ UNCHANGED <<pos, out, sit>>
       ELSE LET offs == IF sit.kind = "query" THEN sit.offsets
                        ELSE [i \in 1..(Len(file) - pos) |-> pos + i]
                s == SamScan(sit, offs)
            IN  IF s.found
                THEN /\ res' = Result("Next", 0, "OK", "true")
                     /\ out' = file[s.offset]
                     /\ pos' = s.offset
                     /\ sit' = [sit EXCEPT
                                  !.offsets = IF sit.kind = "query"
                                              THEN s.rest ELSE <<>>,
                                  !.yielded = Append(@, file[s.offset])]
                ELSE /\ res' = Result("Next", 0, "OK", "false")
                     /\ out' = out
                     /\ pos' = IF offs = <<>> THEN pos ELSE offs[Len(offs)]
                     /\ sit' = [sit EXCEPT !.offsets = <<>>, !.done = TRUE]
    /\ UNCHANGED <<kind, exists, file, phase, options, header, fp, stream,
                   iters, nclose, aborted, firstClose, errIts, bai, idx>>

\* SamReader::Close(): releases the index and the file handle
SamClose ==
    /\ kind = "sam" /\ phase = "open" /\ ~aborted
    /\ IF fp = "null"
       THEN /\ res' = Result("Close", 0, "FailedPrecondition", "none")
            /\ UNCHANGED <<fp, idx, nclose>>
       ELSE /\ res' = Result("Close", 0, "OK", "none")
            /\ fp' = "null"
            /\ idx' = "null"
            /\ nclose' = nclose + 1
    /\ UNCHANGED <<kind, exists, file, phase, options, header, stream, pos,
                   iters, out, aborted, firstClose, errIts, bai, sit>>

---------------------------------------------------------------------------
(* Specification *)

Next ==
    \/ \E nf \in NumFieldsChoices : BedFromFile(nf)
    \/ BedIterate
    \/ \E i \in 1..MaxIter : BedNext(i)
    \/ BedClose
    \/ FastqFromFile
    \/ FastqIterate
    \/ \E i \in 1..MaxIter : FastqNext(i)
    \/ FastqClose
    \/ BedDestroy
    \/ FastqDestroy

Spec == Init /\ [][Next]_vars

\* the SAM reader on its own
InitSam ==
    /\ kind = "sam"
    /\ exists \in BOOLEAN
    /\ bai \in BOOLEAN
    /\ file \in (IF ~exists THEN {<<>>} ELSE SamFiles)
    /\ phase = "new"
    /\ options = 0
    /\ header = 0
    /\ fp = "null"
    /\ stream = "null"
    /\ pos = 0
    /\ iters = 0
    /\ res = NoResult
    /\ out = EmptyRecord
    /\ nclose = 0
    /\ aborted = FALSE
    /\ firstClose = "none"
    /\ errIts = {}
    /\ idx = "null"
    /\ sit = NoIterable

NextSam ==
    \/ \E mode \in IndexModes, minq \in MinMapqChoices : SamFromFile(mode, minq)
    \/ SamIterate
    \/ \E region \in QueryRanges : SamQuery(region)
    \/ SamNext
    \/ SamClose

SpecSam == InitSam /\ [][NextSam]_vars

---------------------------------------------------------------------------
(* Properties *)

IsNext == res.op = "Next"

\* number of tab-separated tokens of a line, by counting the tabs
TokenCount(line) == Cardinality({k \in 1..Len(line) : line[k] = Tab}) + 1

IsCommentLine(line) == Len(line) > 0 /\ line[1] = "#"

\* index of the first non-comment line after cursor p, 0 when there is none
FirstData(p) ==
    LET S == {j \in (p + 1)..Len(file) : ~IsCommentLine(file[j])}
    IN  IF S = {} THEN 0 ELSE CHOOSE j \in S : \A k \in S : j <= k

\* no record remains at the cursor p
NoRecordLeftAt(p) == IF kind = "bed" THEN FirstData(p) = 0 ELSE p = Len(file)

\* C1: once Close() has been called, every Iterate() returns FailedPrecondition
\* and hands out no iterable (BED and FASTQ)
C1_IterateAfterCloseRefused ==
    [][(firstClose # "none" /\ res'.op = "Iterate")
        => (res'.code = "FailedPrecondition" /\ iters' = iters)]_vars

C1_Witness ==
    /\ firstClose # "none" /\ res.op = "Iterate"
    /\ res.code = "FailedPrecondition" /\ iters = 2 /\ pos > 0

\* C2: after Close(), Next() on an iterable obtained before it returns
\* FailedPrecondition and no record, leaves the caller's record and the cursor
\* alone and does not die in a read through the released handle
C2_NextAfterCloseRefused ==
    [][(firstClose # "none" /\ res'.op = "Next")
        => /\ res'.code = "FailedPrecondition" /\ res'.ret = "none"
           /\ out' = out /\ pos' = pos /\ ~aborted']_vars

C2_Witness ==
    /\ firstClose # "none" /\ IsNext /\ res.code = "FailedPrecondition"
    /\ pos > 0 /\ ~NoRecordLeftAt(pos)

\* C3: the first BedReader::Close() returns Ok or Internal and closes the reader
\* either way; every later Close() returns FailedPrecondition and the handle is
\* closed exactly once
C3_BedCloseOnce ==
    [][(kind = "bed" /\ res'.op = "Close")
        => /\ firstClose = "none" => res'.code \in {"OK", "Internal"}
           /\ firstClose # "none" => res'.code = "FailedPrecondition"
           /\ fp' = "null" /\ nclose' = 1]_vars

C3_Witness ==
    /\ kind = "bed" /\ firstClose = "Internal" /\ res.op = "Close"
    /\ res.code = "FailedPrecondition" /\ nclose = 1

\* C4: FastqReader::Close() on a reader that is already closed returns
\* FailedPrecondition
C4_FastqDoubleCloseFails ==
    (kind = "fastq" /\ res.op = "Close" /\ ~res.open)
        => res.code = "FailedPrecondition"

\* the BED data line a Next() starting at cursor p reads (p has one)
DataLine(p) == file[FirstData(p)]

\* the strand token of a BED line is read: six tokens or more, not narrowed away
StrandParsed(line) ==
    TokenCount(line) > 5 /\ (options = 0 \/ options > 5)

\* what the spec calls a malformed BED record
BedMalformed(line) ==
    \/ TokenCount(line) \notin {3, 4, 5, 6, 8, 9, 12}
    \/ TokenCount(line) # header
    \/ StrandParsed(line) /\ StrSplit(line)[6] \notin {<<"+">>, <<"-">>, <<".">>}

\* a BED Next() on an open reader that found a data line to read
BedNextOnData ==
    kind = "bed" /\ IsNext /\ res.open /\ FirstData(res.pre) # 0

\* a FASTQ Next() on an open reader with four lines or more left
FastqNextOnRecord ==
    kind = "fastq" /\ IsNext /\ res.open /\ Len(file) - res.pre >= 4

FastqHeaderOk(p) == Len(file[p + 1]) > 0 /\ file[p + 1][1] = "@"

FastqWellFormed(p) ==
    FastqHeaderOk(p) /\ Len(file[p + 2]) = Len(file[p + 4])

\* the input at cursor p holds a well-formed record
WellFormedAt(p) ==
    IF kind = "bed" THEN FirstData(p) # 0 /\ ~BedMalformed(DataLine(p))
    ELSE Len(file) - p >= 4 /\ FastqWellFormed(p)

\* C5: with options.num_fields = 0, Next() returns true only for a data line with
\* header.num_fields tokens, and the record then has that many fields set
C5_BedWidthStable ==
    (BedNextOnData /\ options = 0)
        => /\ res.ret = "true"
              => /\ TokenCount(DataLine(res.pre)) = header
                 /\ Cardinality(DOMAIN out) = header
           /\ TokenCount(DataLine(res.pre)) # header => res.ret # "true"

C5_Witness ==
    /\ BedNextOnData /\ options = 0 /\ res.ret = "true" /\ res.pre > 0
    /\ header = 6 /\ Cardinality(DOMAIN out) = 6

C7_ErrorEndsIteration == (IsNext /\ res.dead) => res.ret # "true"

\* C7 amended: the Next() that reports a malformed record returns no bool and
\* moves the cursor past it; a later Next() on that iterable, the reader still
\* open, returns a record exactly when the input that follows is well formed
C7_ErrorDoesNotEndIteration ==
    /\ (IsNext /\ res.code \notin {"OK", "FailedPrecondition"})
          => (res.ret = "none" /\ pos > res.pre)
    /\ (IsNext /\ res.dead /\ res.open)
          => (res.ret = "true" <=> WellFormedAt(res.pre))

C7_Witness == IsNext /\ res.dead /\ res.ret = "true"

\* C8: on an open reader with no record left, Next() returns false with an OK
\* status, and no record is left afterwards either, so this repeats
C8_EndOfStreamStable ==
    [][(phase = "open" /\ NoRecordLeftAt(pos))
        => /\ NoRecordLeftAt(pos')
           /\ (res'.op = "Next" /\ fp = "open")
                => (res'.code = "OK" /\ res'.ret = "false")]_vars

C8_Witness ==
    /\ IsNext /\ res.open /\ res.code = "OK" /\ res.ret = "false"
    /\ res.pre = Len(file) /\ Len(file) > 0 /\ res.it = 2

\* C9: a FASTQ Next() that finds 1, 2 or 3 lines left returns DataLoss
C9_TruncatedIsDataLoss ==
    (kind = "fastq" /\ IsNext /\ res.open /\ Len(file) - res.pre \in 1..3)
        => res.code = "DataLoss"

\* C10: a FASTQ Next() over four lines returns a record only when the header is
\* non-empty and starts with '@' and |sequence| = |quality|, and the record then
\* has sequence and quality of equal length; otherwise DataLoss and no record
C10_FastqLengthEquality ==
    /\ (kind = "fastq" /\ IsNext /\ res.ret = "true") => FastqNextOnRecord
    /\ FastqNextOnRecord
          => IF FastqWellFormed(res.pre)
             THEN /\ res.code = "OK" /\ res.ret = "true"
                  /\ Len(out.sequence) = Len(out.quality)
                  /\ out.sequence = file[res.pre + 2]
             ELSE /\ res.code = "DataLoss" /\ res.ret = "none"
                  /\ DOMAIN out = {}

C10_Witness ==
    /\ FastqNextOnRecord /\ res.ret = "true" /\ Len(out.sequence) = 2
    /\ \E p \in 0..(Len(file) - 4) : ~FastqWellFormed(p)

\* the four lines a FASTQ Next() at cursor p reads are non-empty and the third
\* starts with '+'
FastqGrammarOk(p) ==
    /\ \A k \in 1..4 : Len(file[p + k]) > 0
    /\ file[p + 3][1] = "+"

\* C11 as stated: every record a successful Next() returns was read from four
\* non-empty lines whose third line starts with '+'
C11_FastqGrammar ==
    (FastqNextOnRecord /\ res.ret = "true") => FastqGrammarOk(res.pre)

\* C11 amended: what a returned record guarantees is a non-empty first line that
\* starts with '@' and second and fourth lines of equal length; the third line
\* is not looked at and lines two to four may be empty, so such records are
\* returned too
C11_FastqGrammarLax ==
    FastqNextOnRecord
        => /\ res.ret = "true" => FastqWellFormed(res.pre)
           /\ (FastqWellFormed(res.pre) /\ ~FastqGrammarOk(res.pre))
                => (res.code = "OK" /\ res.ret = "true"
                    /\ out.quality = file[res.pre + 4])

C11_Witness ==
    /\ FastqNextOnRecord /\ res.ret = "true"
    /\ Len(file[res.pre + 3]) > 0 /\ file[res.pre + 3][1] # "+"

\* C12: FromFile on an existing file with a non-comment line returns
\* InvalidArgument exactly when options.num_fields is nonzero and exceeds the
\* token count of the first non-comment line or is not a valid count; otherwise
\* an open reader with header.num_fields equal to that count; NotFound when the
\* path cannot be opened
C12_FromFileOutcome ==
    (kind = "bed" /\ res.op = "FromFile")
        => IF ~exists THEN res.code = "NotFound" /\ phase = "failed"
           ELSE FirstData(0) # 0
                => IF /\ options # 0
                      /\ \/ options > TokenCount(DataLine(0))
                         \/ options \notin {3, 4, 5, 6, 8, 9, 12}
                   THEN res.code = "InvalidArgument" /\ phase = "failed"
                   ELSE /\ res.code = "OK" /\ phase = "open" /\ fp = "open"
                        /\ header = TokenCount(DataLine(0))

C12_Witness ==
    /\ kind = "bed" /\ res.op = "FromFile" /\ res.code = "InvalidArgument"
    /\ options = 6 /\ TokenCount(DataLine(0)) = 4 /\ FirstData(0) = 2

\* the BedRecord fields in BED column order
BedFieldOrder ==
    <<"reference_name", "start", "end", "name", "score", "strand",
      "thick_start", "thick_end", "item_rgb", "block_count", "block_sizes",
      "block_starts">>

FirstFields(k) == {BedFieldOrder[j] : j \in 1..k}

\* C13: a record returned by Next() has exactly the first k BED fields set when
\* the reader was opened with num_fields = k # 0, whatever the file width, and
\* all the fields of the line when num_fields = 0
C13_NarrowingProjection ==
    (BedNextOnData /\ res.ret = "true")
        => DOMAIN out = FirstFields(IF options = 0
                                    THEN TokenCount(DataLine(res.pre))
                                    ELSE options)

C13_Witness ==
    /\ BedNextOnData /\ res.ret = "true" /\ options = 8 /\ header = 12
    /\ "thick_end" \in DOMAIN out /\ "item_rgb" \notin DOMAIN out

\* the file without its comment lines
Stripped == SelectSeq(file, LAMBDA l : ~IsCommentLine(l))

\* how many of the first p lines are data lines: the cursor in Stripped that
\* corresponds to cursor p in file
DataBefore(p) == Cardinality({j \in 1..p : ~IsCommentLine(file[j])})

\* what FromFile returns for a file f that can be opened
FromFileCodeOn(f) ==
    LET n == GetNumFields(TRUE, f)
    IN  IF n.status # "OK" THEN n.status
        ELSE IF BedOptionsInvalid(options, n.numFields) THEN "InvalidArgument"
        ELSE "OK"

\* status, bool and record of a BED Next() reading file f at cursor p
NextResultsOn(f, p) ==
    LET r == NextNonCommentLine(f, p)
    IN  IF r.status # "OK" THEN {[code |-> "OK", ret |-> "false", out |-> <<>>]}
        ELSE {LET c == ConvertToPb(r.line, options, g)
                  v == Validate(header, c.numTokens)
              IN  IF c.status # "OK"
                  THEN [code |-> c.status, ret |-> "none", out |-> c.record]
                  ELSE IF v # "OK"
                  THEN [code |-> v, ret |-> "none", out |-> c.record]
                  ELSE [code |-> "OK", ret |-> "true", out |-> c.record] :
              g \in GarbageLocals}

StrandToken(line) == StrSplit(line)[6]

\* C15: when the strand field is parsed, "+" gives FORWARD, "-" REVERSE and "."
\* NONE, any other token makes Next() fail, and a returned record with a strand
\* has one of those three values
C15_StrandTotality ==
    (BedNextOnData /\ StrandParsed(DataLine(res.pre)))
        => LET tok == StrandToken(DataLine(res.pre))
           IN  /\ res.ret = "true"
                    => /\ tok = <<"+">> => out.strand = "FORWARD_STRAND"
                       /\ tok = <<"-">> => out.strand = "REVERSE_STRAND"
                       /\ tok = <<".">> => out.strand = "NO_STRAND"
                       /\ out.strand \in {"FORWARD_STRAND", "REVERSE_STRAND",
                                          "NO_STRAND"}
               /\ tok \notin {<<"+">>, <<"-">>, <<".">>}
                    => (res.code # "OK" /\ res.ret = "none")

C15_Witness ==
    /\ BedNextOnData /\ res.ret = "true" /\ res.pre > 0
    /\ "strand" \in DOMAIN out /\ out.strand = "REVERSE_STRAND"

\* the record in out' is the one of the first unread record of the file, and the
\* cursor stops right after it
ReturnsNextUnread ==
    IF kind = "bed"
    THEN /\ FirstData(pos) # 0 /\ pos' = FirstData(pos)
         /\ \E g \in GarbageLocals :
                out' = ConvertToPb(file[pos'], options, g).record
    ELSE /\ pos' = pos + 4 /\ pos' <= Len(file)
         /\ out'.sequence = file[pos + 2] /\ out'.quality = file[pos + 4]

\* C16: whichever iterable makes the call, a successful Next() returns the first
\* record the reader's cursor has not passed and moves the cursor past it; the
\* cursor never moves back and Iterate() leaves it alone.  So the records come
\* in file order, none twice.
C16_SourceOrder ==
    [][/\ pos' >= pos
       /\ res'.op = "Iterate" => pos' = pos
       /\ (res'.op = "Next" /\ res'.ret = "true") => ReturnsNextUnread]_vars

C16_Witness ==
    /\ IsNext /\ res.ret = "true" /\ res.it = 2 /\ res.pre > 0
    /\ pos = Len(file) /\ ~res.dead

\* the numeric fields of a BED record and the token each is parsed from
NumericFields ==
    {<<"start", 2>>, <<"end", 3>>, <<"score", 5>>, <<"thick_start", 7>>,
     <<"thick_end", 8>>, <<"block_count", 10>>}

\* C19: a BED Next() that returns a record leaves zero in every numeric field
\* whose token is not a number, whatever the other fields of the line hold.
C19_ParseFailureGivesZero ==
    (BedNextOnData /\ res.ret = "true") =>
        LET tokens == StrSplit(DataLine(res.pre))
        IN  \A f \in NumericFields :
                (f[1] \in DOMAIN out /\ ~IsNumber(tokens[f[2]])) => out[f[1]] = 0

\* C20: once a reader is destroyed its resources were closed exactly once, by
\* Close() or by the destructor, and the program goes on even when the close in
\* the destructor reported an I/O error.
C20_DestroyClosesSilently ==
    res.op = "Destroy" => (fp = "null" /\ nclose = 1 /\ ~aborted)

\* C17: a reader comes out of FromFile with HasIndex() true exactly when the
\* index was loaded (which takes the .bai file), HasIndex() keeps its value
\* while the reader stays open, and a Query on a reader whose HasIndex() is
\* false returns FailedPrecondition and hands out no iterable, whatever the
\* range.
C17_IndexlessQuery ==
    [][/\ (res'.op = "FromFile" /\ res'.code = "OK")
            => /\ HasIndex' <=> res'.ret = "loaded"
               /\ HasIndex' => bai
       /\ (phase = "open" /\ fp' # "null") => (HasIndex' <=> HasIndex)
       /\ (res'.op = "Query" /\ ~HasIndex)
            => /\ res'.code = "FailedPrecondition"
               /\ res'.ret = "none"
               /\ sit' = sit]_vars

C17_Witness ==
    /\ res.op = "Query" /\ res.code = "FailedPrecondition" /\ res.open
    /\ ~HasIndex /\ bai /\ Len(file) > 0

\* what Iterate() yields on a freshly opened reader: the reads of the file that
\* pass the reader's filter, in file order
IterateRecords == SelectSeq(file, KeepRead)

\* the records of Iterate() on the region's reference whose alignment interval
\* [rs, re) has rs < qe and re > qs, in the order of Iterate()
QueryRecords(region) ==
    LET hit(r) == /\ r.reference_name = region.reference_name
                  /\ r.start < region.end
                  /\ r.end > region.start
    IN  SelectSeq(IterateRecords, hit)

IsPrefix(s, t) == Len(s) <= Len(t) /\ SubSeq(t, 1, Len(s)) = s

SpacesOf(h) == {i \in 1..Len(h) : h[i] = " "}

\* position of the first space of a header line that has one
FirstSpace(h) == CHOOSE i \in SpacesOf(h) : \A j \in SpacesOf(h) : i <= j

\* C21: a record returned by a FASTQ Next() has as id the header between the
\* '@' and the first space and as description all that follows that space, or
\* the whole header after the '@' as id and no description when there is no
\* space; sequence and quality are lines 2 and 4 as read; and whether a record
\* is returned depends on lines 1, 2 and 4 only, never on line 3.
C21_HeaderSplit ==
    FastqNextOnRecord
        => /\ res.ret = "true" <=> FastqWellFormed(res.pre)
           /\ res.ret = "true"
                => LET h == file[res.pre + 1]
                   IN  /\ IF SpacesOf(h) # {}
                          THEN /\ DOMAIN out =
                                    {"id", "description", "sequence", "quality"}
                               /\ out.id = SubSeq(h, 2, FirstSpace(h) - 1)
                               /\ out.description =
                                    SubSeq(h, FirstSpace(h) + 1, Len(h))
                          ELSE /\ DOMAIN out = {"id", "sequence", "quality"}
                               /\ out.id = SubSeq(h, 2, Len(h))
                       /\ out.sequence = file[res.pre + 2]
                       /\ out.quality = file[res.pre + 4]

\* a record returned from a header with two spaces, after a record whose third
\* line is not "+" was returned as well
C21_Witness ==
    /\ FastqNextOnRecord /\ res.ret = "true" /\ res.pre = 4
    /\ Cardinality(SpacesOf(file[res.pre + 1])) = 2
    /\ FastqWellFormed(0) /\ file[3] # <<"+">>

\* what a failed parse of `line` leaves in the caller's record: nothing when the
\* token count is not a BED width; the fields up to score when the strand token
\* is bad; else (width mismatch) every field parsed from the line
LeftByFailure(line, rec) ==
    LET tokens == StrSplit(line)
        n == TokenCount(line)
        k == IF options = 0 \/ n < options THEN n ELSE options
    IN  IF n \notin {3, 4, 5, 6, 8, 9, 12} THEN DOMAIN rec = {}
        ELSE /\ DOMAIN rec =
                    FirstFields(IF /\ k > 5
                                   /\ StrandToken(line)
                                         \notin {<<"+">>, <<"-">>, <<".">>}
                                THEN 5 ELSE k)
             /\ rec.reference_name = tokens[1]
             /\ IsNumber(tokens[2]) => rec.start = DecimalValue(tokens[2], 0)
             /\ IsNumber(tokens[3]) => rec.end = DecimalValue(tokens[3], 0)
             /\ k > 3 => rec.name = tokens[4]

====
